---- MODULE Spec2Model ----
(***************************************************************************)
(* Decision-to-order execution of the TradingAgents scripts.               *)
(*                                                                         *)
(*   execute_trades.py          main / execute_decision / log_trade        *)
(*   execute_trades_vf.py       the price-based trade loop, fixed decisions*)
(*   investing_alpaca.py        decision collection, then the same loop    *)
(*   generate_daily_reports.py  generate_reports                           *)
(*                                                                         *)
(* Spec is one process of any of the scripts; SpecRuns is execute_trades.py *)
(* with its default ticker list, started again and again against the same  *)
(* broker account and the same audit log file.  Every call to a            *)
(* collaborator (Decision Source, broker, file system) is one step, so     *)
(* that an external kill can fall between any two of them.                 *)
(*                                                                         *)
(* Fractions are rationals num/Den; a size computed by the code (notional, *)
(* share quantity times fraction) is kept as its numerator over Den, so    *)
(* the products of the code are exact.                                     *)
(***************************************************************************)
EXTENDS Integers, Sequences, FiniteSets, TLC

VARIABLES
    script,       \* the script this behaviour runs
    status,       \* "running", "exit0", "exit1", "fatal", "killed"
    pc,           \* position of the running script
    runs,         \* number of process starts so far
    tickers,      \* args.tickers
    buy_pct,      \* args.buy_pct   (numerator over Den)
    sell_pct,     \* args.sell_pct  (numerator over Den)
    i,            \* 1-based index of the ticker the for-loop is at
    decision,     \* decision_upper of the current ticker
    analysis,     \* kind of the analysis payload of the current ticker
    notional,     \* local notional of execute_decision (numerator over Den)
    qty,          \* local qty of execute_decision (numerator over Den)
    row,          \* the row handed to log_trade
    file_exists,  \* local file_exists of log_trade
    file,         \* data/trades/trade_history.csv
    cash,         \* broker: account.cash
    position,     \* broker: open position quantity per ticker (0: none)
    orders,       \* broker: the orders it accepted, oldest first
    run_cash,     \* account.cash when the current process started
    decisions,    \* price-based loops: the decisions dict (raw labels)
    price_map,    \* price-based loops: latest trade price per BUY symbol
    h             \* what the handling of the current ticker did (history)

config == <<script, runs, tickers, buy_pct, sell_pct>>
locals == <<decision, analysis, notional, qty, row, file_exists>>
broker == <<cash, position, orders>>
loopv == <<decisions, price_map>>

vars == <<config, status, pc, i, locals, file, broker, run_cash, loopv, h>>

(***************************************************************************)
(* Bounds of the model.                                                    *)
(***************************************************************************)
MaxBatch == 3      \* longest ticker list
MaxRuns == 3       \* process starts against the same log file
Den == 10          \* denominator of every fraction
InitCash == 1600   \* cash of a funded account
InitQty == 4       \* shares of an open position
MarkPrice == 100   \* market value of one held share

\* FRACTION = 0.1 of the price-based loops, as a numerator over Den.
Fraction == 1

Tickers == {"NVDA", "AAPL"}
AllTickers == Tickers \cup {"MSFT", "NU"}

\* parser.add_argument("tickers", nargs="*", default=["NU"])
DefaultTickers == <<"NU">>
Prices == {100, 300}

\* The account holds NVDA and no AAPL.
InitPosition == [t \in AllTickers |-> IF t = "NVDA" THEN InitQty ELSE 0]

RECURSIVE SeqsUpTo(_, _)
SeqsUpTo(S, n) ==
    IF n = 0 THEN {<<>>}
    ELSE LET shorter == SeqsUpTo(S, n - 1)
         IN  shorter \cup {Append(s, x) : s \in {t \in shorter : Len(t) = n - 1}, x \in S}

Batches == SeqsUpTo(Tickers, MaxBatch) \ {<<>>}

BuyPcts == {0, 5}           \* 0, 0.5
SellPcts == {0, 10, 15}     \* 0, 1.0, 1.5

(***************************************************************************)
(* Decision labels: strings as tuples of characters, so that str.strip and *)
(* str.upper are computed.                                                 *)
(***************************************************************************)
UpperChar(c) ==
    CASE c = "b" -> "B" [] c = "u" -> "U" [] c = "y" -> "Y"
      [] c = "s" -> "S" [] c = "e" -> "E" [] c = "l" -> "L"
      [] c = "h" -> "H" [] c = "o" -> "O" [] c = "d" -> "D"
      [] c = "w" -> "W" [] c = "a" -> "A" [] c = "i" -> "I" [] c = "t" -> "T"
      [] OTHER -> c

Upper(s) == [k \in 1..Len(s) |-> UpperChar(s[k])]

RECURSIVE LStrip(_)
LStrip(s) == IF s # <<>> /\ Head(s) = " " THEN LStrip(Tail(s)) ELSE s

RECURSIVE RStrip(_)
RStrip(s) ==
    IF s # <<>> /\ s[Len(s)] = " " THEN RStrip(SubSeq(s, 1, Len(s) - 1)) ELSE s

Strip(s) == RStrip(LStrip(s))

BUY == <<"B", "U", "Y">>
SELL == <<"S", "E", "L", "L">>
HOLD == <<"H", "O", "L", "D">>

\* What the Decision Source may answer.
RawLabels ==
    { BUY, <<" ", "b", "u", "y">>,
      SELL, <<"s", "e", "l", "l", " ">>,
      HOLD, <<"h", "o", "l", "d">>,
      <<"W", "A", "I", "T">> }

\* "plain": serialisable and encodable; "unserialisable": json.dumps raises;
\* "surrogate": json.dumps(ensure_ascii=False) returns a string that the
\* utf-8 file refuses to encode.
AnalysisKinds == {"plain", "unserialisable", "surrogate"}

NoLabel == <<>>
NoRow == [action |-> "NONE", ticker |-> "", qty |-> 0, notional |-> 0, enc |-> TRUE]
HeaderRow == [action |-> "HEADER", ticker |-> "ticker", qty |-> 0, notional |-> 0]

FreshH ==
    [ticker |-> "", raw |-> NoLabel, decision |-> NoLabel,
     st |-> "PENDING", from |-> "PENDING",
     appended |-> 0, errors |-> 0, submits |-> 0, accepted |-> 0, calls |-> 0,
     raised |-> "none", nopos |-> FALSE, size |-> 1]

Terminal == {"exit0", "exit1", "fatal", "killed"}

(***************************************************************************)
(* Position Sizing                                                         *)
(***************************************************************************)
\* execute_decision: notional = cash * buy_pct          (numerator over Den)
BuyNotional(c, pct) == c * pct

\* execute_decision: qty = float(position.qty) * sell_pct (numerator over Den)
SellQtyClamped(q, pct) == IF pct > Den THEN q * Den ELSE q * pct
SellQty(q, pct) == q * pct

\* execute_decision: notional = float(position.market_value) * sell_pct
SellNotional(q, pct) == q * MarkPrice * pct

\* The test that returns without an order: notional <= 0, qty <= 0.
NeverNonPositive(x) == FALSE
NonPositive(x) == x <= 0

\* float(api.get_account().cash): the broker's balance at the time of the call.
StaleCash == run_cash
AccountCash == cash

\* floor_qty(dollars, price) = max(math.floor(dollars / price), 1), with
\* dollars given as a numerator over Den.
FloorQty(dollars, price) ==
    LET f == dollars \div (Den * price) IN IF f > 1 THEN f ELSE 1

(***************************************************************************)
(* Broker                                                                  *)
(***************************************************************************)
\* qty is in 1/Den shares, notional in 1/Den dollars; cost is the dollars the
\* order moves.
Order(t, side, q, n, cost) ==
    [ticker |-> t, side |-> side, qty |-> q, notional |-> n, cost |-> cost]

\* An order the broker can accept: funds cover a BUY, the holding covers a
\* SELL.  It may reject an acceptable order too (market closed, ...).
Acceptable(o) ==
    IF o.side = "BUY" THEN o.cost <= cash
    ELSE position[o.ticker] > 0 /\ o.qty <= position[o.ticker] * Den

\* The account after the broker accepted o.
Fill(o) ==
    /\ orders' = Append(orders, o)
    /\ IF o.side = "BUY"
       THEN /\ cash' = cash - o.cost
            /\ UNCHANGED position
       ELSE /\ cash' = cash + o.cost
            /\ position' = [position EXCEPT ![o.ticker] = @ - (o.qty \div Den)]

(***************************************************************************)
(* Control                                                                 *)
(***************************************************************************)
NoLocals ==
    /\ decision' = NoLabel /\ analysis' = "plain" /\ notional' = 0 /\ qty' = 0
    /\ row' = NoRow /\ file_exists' = FALSE

\* The handling of the current ticker is over: its locals are gone and the
\* for-loop moves on.
Return(loop) == /\ pc' = loop /\ i' = i + 1 /\ NoLocals

\* An exception nothing catches: traceback, exit status 1.
Uncaught == /\ status' = "exit1" /\ UNCHANGED <<pc, i, locals>>

(***************************************************************************)
(* Audit log: log_trade                                                    *)
(***************************************************************************)
FileRow(r) == [action |-> r.action, ticker |-> r.ticker, qty |-> r.qty,
               notional |-> r.notional]

ErrorRow(t) == [action |-> "ERROR", ticker |-> t, qty |-> 0, notional |-> 0,
                enc |-> TRUE]

\* path.open("a", ...): what is written goes after what the file holds.
Truncated(rows, new) == new
Appended(rows, new) == rows \o new

\* file_exists = path.exists(), then path.open("a") creates the file.
LogOpen ==
    /\ status = "running" /\ pc = "log_open"
    /\ file_exists' = file.exists
    /\ file' = [file EXCEPT !.exists = TRUE]
    /\ pc' = "log_write"
    /\ UNCHANGED <<config, status, i, decision, analysis, notional, qty, row,
                   broker, run_cash, loopv, h>>

\* if not file_exists: the header is written.
AlwaysHeader == TRUE
WritesHeader == ~file_exists

HeaderPart == IF WritesHeader THEN <<HeaderRow>> ELSE <<>>

\* writerow(header) if the file is new, writerow(row), close.  A row the codec
\* refuses raises with the header already in the buffer; the with-block
\* closes the file and the exception reaches the except clause of
\* execute_decision, which logs the ERROR row.  The ERROR row holds str(exc)
\* in place of the analysis and is always encodable.
LogWrite ==
    /\ status = "running" /\ pc = "log_write"
    /\ IF row.enc
       THEN /\ file' = [file EXCEPT !.rows = Appended(@, HeaderPart \o <<FileRow(row)>>)]
            /\ h' = [h EXCEPT !.appended = @ + 1,
                              !.errors = @ + (IF row.action = "ERROR" THEN 1 ELSE 0),
                              !.from = h.st, !.st = "LOGGED"]
            /\ Return("loop")
       ELSE /\ file' = [file EXCEPT !.rows = Appended(@, HeaderPart)]
            /\ h' = [h EXCEPT !.raised = "log_trade", !.from = h.st, !.st = "FAILED"]
            /\ row' = ErrorRow(row.ticker)
            /\ pc' = "log_open"
            /\ UNCHANGED <<i, decision, analysis, notional, qty, file_exists>>
    /\ UNCHANGED <<config, status, broker, run_cash, loopv>>

(***************************************************************************)
(* execute_trades.py: main                                                 *)
(***************************************************************************)
\* init_tradingagents(), get_alpaca_client(): missing credentials raise
\* RuntimeError before the loop.
Start ==
    /\ status = "running" /\ pc = "start" /\ script = "execute_trades"
    /\ \E creds \in BOOLEAN :
         IF creds THEN /\ pc' = "loop" /\ UNCHANGED status
         ELSE /\ status' = "fatal" /\ UNCHANGED pc
    /\ UNCHANGED <<config, i, locals, file, broker, run_cash, loopv, h>>

\* The for-loop is exhausted.
Finish ==
    /\ status = "running" /\ pc = "loop" /\ script = "execute_trades"
    /\ i > Len(tickers)
    /\ status' = "exit0"
    /\ UNCHANGED <<config, pc, i, locals, file, broker, run_cash, loopv, h>>

\* decision_upper = decision.strip().upper()
UpperOnly(raw) == Upper(raw)
Normalize(raw) == Upper(Strip(raw))

\* if decision_upper == "HOLD": continue
IsHold(d) == d = HOLD

\* analysis, decision = ta.propagate(ticker, trade_date): returns a payload and
\* a label, or raises (nothing catches it); then the normalisation and the
\* HOLD filter.
Fetch ==
    /\ status = "running" /\ pc = "loop" /\ script = "execute_trades"
    /\ i <= Len(tickers)
    /\ \E ok \in BOOLEAN :
         IF ~ok
         THEN /\ h' = [FreshH EXCEPT !.ticker = tickers[i], !.raised = "propagate"]
              /\ Uncaught
         ELSE \E raw \in RawLabels, a \in AnalysisKinds :
                LET d == Normalize(raw) IN
                /\ UNCHANGED status
                /\ IF IsHold(d)
                   THEN /\ h' = [FreshH EXCEPT !.ticker = tickers[i], !.raw = raw,
                                               !.decision = d,
                                               !.from = "DECIDED", !.st = "SKIPPED"]
                        /\ Return("loop")
                   ELSE /\ h' = [FreshH EXCEPT !.ticker = tickers[i], !.raw = raw,
                                               !.decision = d, !.st = "DECIDED"]
                        /\ decision' = d
                        /\ analysis' = a
                        /\ pc' = "exec"
                        /\ UNCHANGED <<i, notional, qty, row, file_exists>>
    /\ UNCHANGED <<config, file, broker, run_cash, loopv>>

(***************************************************************************)
(* execute_trades.py: execute_decision                                     *)
(***************************************************************************)
\* if decision == "BUY": ... elif decision == "SELL": ... (else: return)
BranchBuyDefault(d) == IF d = SELL THEN "sell_pos" ELSE "buy_cash"
Branch(d) == IF d = BUY THEN "buy_cash" ELSE IF d = SELL THEN "sell_pos" ELSE "return"

\* analysis_str = json.dumps(analysis, ensure_ascii=False) (raises on a
\* payload that is not serialisable; nothing catches it), then the branch.
Exec ==
    /\ status = "running" /\ pc = "exec"
    /\ IF analysis = "unserialisable"
       THEN /\ h' = [h EXCEPT !.raised = "dumps"]
            /\ Uncaught
       ELSE /\ UNCHANGED status
            /\ IF Branch(decision) = "return"
               THEN /\ h' = [h EXCEPT !.from = h.st, !.st = "SKIPPED"]
                    /\ Return("loop")
               ELSE /\ pc' = Branch(decision)
                    /\ UNCHANGED <<i, locals, h>>
    /\ UNCHANGED <<config, file, broker, run_cash, loopv>>

\* BUY: account = api.get_account() (outside any try block), cash,
\* notional = cash * buy_pct, if notional <= 0: return.
BuyCash ==
    /\ status = "running" /\ pc = "buy_cash"
    /\ \E ok \in BOOLEAN :
         IF ~ok
         THEN /\ h' = [h EXCEPT !.calls = @ + 1, !.raised = "get_account"]
              /\ Uncaught
         ELSE LET n == BuyNotional(AccountCash, buy_pct) IN
              /\ UNCHANGED status
              /\ IF NonPositive(n)
                 THEN /\ h' = [h EXCEPT !.calls = @ + 1, !.size = n,
                                        !.from = h.st, !.st = "SKIPPED"]
                      /\ Return("loop")
                 ELSE /\ h' = [h EXCEPT !.calls = @ + 1, !.size = n,
                                        !.from = h.st, !.st = "SIZED"]
                      /\ notional' = n
                      /\ pc' = "buy_submit"
                      /\ UNCHANGED <<i, decision, analysis, qty, row, file_exists>>
    /\ UNCHANGED <<config, file, broker, run_cash, loopv>>

\* The row logged after an accepted order.
SuccessRowZero(t, side, q, n) ==
    [action |-> side, ticker |-> t, qty |-> 0, notional |-> 0,
     enc |-> analysis # "surrogate"]
SuccessRow(t, side, q, n) ==
    [action |-> side, ticker |-> t, qty |-> q, notional |-> n,
     enc |-> analysis # "surrogate"]

\* The row logged by the except clause.
RejectRowAsBuy(t) == [ErrorRow(t) EXCEPT !.action = "BUY"]
RejectRow(t) == ErrorRow(t)

\* except Exception as exc: log_trade(... "ERROR" ...): where a raise of
\* submit_order takes the handling; the order is not sent again.
SubmitAgain == pc
OnSubmitError == "log_open"

\* BUY: order = api.submit_order(order_req) inside the try block; the order is
\* by notional, and qty = getattr(order, "qty", "") carries no quantity yet.
BuySubmit ==
    /\ status = "running" /\ pc = "buy_submit"
    /\ LET o == Order(tickers[i], "BUY", 0, notional, notional \div Den) IN
       \E accept \in BOOLEAN :
         IF accept /\ Acceptable(o)
         THEN /\ Fill(o)
              /\ row' = SuccessRow(tickers[i], "BUY", 0, notional)
              /\ h' = [h EXCEPT !.calls = @ + 1, !.submits = @ + 1,
                                !.accepted = @ + 1, !.from = h.st, !.st = "SUBMITTED"]
              /\ pc' = "log_open"
         ELSE /\ UNCHANGED broker
              /\ row' = RejectRow(tickers[i])
              /\ h' = [h EXCEPT !.calls = @ + 1, !.submits = @ + 1,
                                !.raised = "submit_order",
                                !.from = h.st, !.st = "FAILED"]
              /\ pc' = OnSubmitError
    /\ UNCHANGED <<config, status, i, decision, analysis, notional, qty,
                   file_exists, file, run_cash, loopv>>

\* SELL: position = api.get_open_position(ticker) inside the try block: raises
\* when there is no open position or the call fails; qty, if qty <= 0: return,
\* notional.
SellPos ==
    /\ status = "running" /\ pc = "sell_pos"
    /\ \E ok \in BOOLEAN :
         IF ~ok \/ position[tickers[i]] = 0
         THEN /\ h' = [h EXCEPT !.calls = @ + 1, !.raised = "get_open_position",
                                !.nopos = (position[tickers[i]] = 0),
                                !.from = h.st, !.st = "FAILED"]
              /\ row' = RejectRow(tickers[i])
              /\ pc' = "log_open"
              /\ UNCHANGED <<i, decision, analysis, notional, qty, file_exists>>
         ELSE LET q == SellQty(position[tickers[i]], sell_pct) IN
              IF NonPositive(q)
              THEN /\ h' = [h EXCEPT !.calls = @ + 1, !.size = q,
                                     !.from = h.st, !.st = "SKIPPED"]
                   /\ Return("loop")
              ELSE /\ h' = [h EXCEPT !.calls = @ + 1, !.size = q,
                                     !.from = h.st, !.st = "SIZED"]
                   /\ qty' = q
                   /\ notional' = SellNotional(position[tickers[i]], sell_pct)
                   /\ pc' = "sell_submit"
                   /\ UNCHANGED <<i, decision, analysis, row, file_exists>>
    /\ UNCHANGED <<config, status, file, broker, run_cash, loopv>>

\* SELL: api.submit_order(order_req) inside the try block; the order is by
\* share quantity.
SellSubmit ==
    /\ status = "running" /\ pc = "sell_submit"
    /\ LET o == Order(tickers[i], "SELL", qty, 0, (qty * MarkPrice) \div Den) IN
       \E accept \in BOOLEAN :
         IF accept /\ Acceptable(o)
         THEN /\ Fill(o)
              /\ row' = SuccessRow(tickers[i], "SELL", qty, notional)
              /\ h' = [h EXCEPT !.calls = @ + 1, !.submits = @ + 1,
                                !.accepted = @ + 1, !.from = h.st, !.st = "SUBMITTED"]
              /\ pc' = "log_open"
         ELSE /\ UNCHANGED broker
              /\ row' = RejectRow(tickers[i])
              /\ h' = [h EXCEPT !.calls = @ + 1, !.submits = @ + 1,
                                !.raised = "submit_order",
                                !.from = h.st, !.st = "FAILED"]
              /\ pc' = OnSubmitError
    /\ UNCHANGED <<config, status, i, decision, analysis, notional, qty,
                   file_exists, file, run_cash, loopv>>

(***************************************************************************)
(* execute_trades_vf.py and investing_alpaca.py: the price-based loop      *)
(***************************************************************************)
\* execute_trades_vf.py: the decisions dict of the script.
FixedDecisions ==
    [t \in {"NVDA", "AAPL", "MSFT"} |->
        IF t = "NVDA" THEN SELL ELSE IF t = "AAPL" THEN BUY ELSE HOLD]

\* investing_alpaca.py: for ticker in tickers: _, decision = ta.propagate(...);
\* decisions[ticker] = decision.  Nothing catches a raise.
Collect ==
    /\ status = "running" /\ pc = "collect" /\ script = "investing_alpaca"
    /\ \E ok \in BOOLEAN :
         IF ~ok
         THEN /\ h' = [FreshH EXCEPT !.ticker = tickers[i], !.raised = "propagate"]
              /\ Uncaught
              /\ UNCHANGED decisions
         ELSE \E raw \in RawLabels :
                /\ decisions' = [t \in DOMAIN decisions \cup {tickers[i]} |->
                                   IF t = tickers[i] THEN raw ELSE decisions[t]]
                /\ IF i = Len(tickers)
                   THEN pc' = "creds" /\ i' = 1
                   ELSE pc' = "collect" /\ i' = i + 1
                /\ UNCHANGED <<status, locals, h>>
    /\ UNCHANGED <<config, file, broker, run_cash, price_map>>

\* decision = decision.upper()
LoopNormalize(raw) == Upper(raw)

\* buy_symbols = [s for s, d in decisions.items() if d.upper() == "BUY"]
BuySymbols == {t \in DOMAIN decisions : LoopNormalize(decisions[t]) = BUY}

\* The credential check (sys.exit on missing credentials), the clients, the
\* starting cash_balance() and price_map = latest_prices(buy_symbols); a
\* raise of either call is not caught.
Startup ==
    /\ status = "running" /\ pc = "creds"
    /\ \E creds \in BOOLEAN :
         IF ~creds
         THEN /\ status' = "fatal" /\ UNCHANGED <<pc, price_map>>
         ELSE \E ok \in BOOLEAN :
                IF ~ok
                THEN /\ status' = "exit1" /\ UNCHANGED <<pc, price_map>>
                ELSE /\ price_map' \in [BuySymbols -> Prices]
                     /\ pc' = "p_loop"
                     /\ UNCHANGED status
    /\ UNCHANGED <<config, i, locals, file, broker, run_cash, decisions, h>>

\* if decision == "BUY": ... elif decision == "SELL": ... else: print
LoopBranch(d) ==
    IF d = BUY THEN "p_buy_size" ELSE IF d = SELL THEN "p_sell_pos" ELSE "continue"

\* for symbol, decision in decisions.items(): the normalisation and the branch.
Dispatch ==
    /\ status = "running" /\ pc = "p_loop" /\ i <= Len(tickers)
    /\ LET d == LoopNormalize(decisions[tickers[i]]) IN
       IF LoopBranch(d) = "continue"
       THEN /\ h' = [FreshH EXCEPT !.ticker = tickers[i],
                                   !.raw = decisions[tickers[i]], !.decision = d,
                                   !.from = "DECIDED", !.st = "SKIPPED"]
            /\ Return("p_loop")
       ELSE /\ h' = [FreshH EXCEPT !.ticker = tickers[i],
                                   !.raw = decisions[tickers[i]], !.decision = d,
                                   !.st = "DECIDED"]
            /\ decision' = d
            /\ pc' = LoopBranch(d)
            /\ UNCHANGED <<i, analysis, notional, qty, row, file_exists>>
    /\ UNCHANGED <<config, status, file, broker, run_cash, loopv>>

\* BUY: price = price_map[symbol]; dollars_out = cash_balance() * FRACTION;
\* qty = floor_qty(dollars_out, price).  qty is in whole shares here.
LoopBuySize ==
    /\ status = "running" /\ pc = "p_buy_size"
    /\ \E ok \in BOOLEAN :
         IF ~ok
         THEN /\ h' = [h EXCEPT !.calls = @ + 1, !.raised = "get_account"]
              /\ Uncaught
         ELSE LET dollars_out == AccountCash * Fraction IN
              /\ h' = [h EXCEPT !.calls = @ + 1, !.size = dollars_out,
                                !.from = h.st, !.st = "SIZED"]
              /\ qty' = FloorQty(dollars_out, price_map[tickers[i]])
              /\ pc' = "p_buy_submit"
              /\ UNCHANGED <<status, i, decision, analysis, notional, row, file_exists>>
    /\ UNCHANGED <<config, file, broker, run_cash, loopv>>

\* SELL: qty = int(trade_client.get_open_position(symbol).qty) in a try block
\* whose except clause prints and continues.
LoopSellPos ==
    /\ status = "running" /\ pc = "p_sell_pos"
    /\ \E ok \in BOOLEAN :
         IF ~ok \/ position[tickers[i]] = 0
         THEN /\ h' = [h EXCEPT !.calls = @ + 1, !.raised = "get_open_position",
                                !.nopos = (position[tickers[i]] = 0),
                                !.from = h.st, !.st = "SKIPPED"]
              /\ Return("p_loop")
         ELSE /\ h' = [h EXCEPT !.calls = @ + 1, !.size = position[tickers[i]],
                                !.from = h.st, !.st = "SIZED"]
              /\ qty' = position[tickers[i]]
              /\ pc' = "p_sell_submit"
              /\ UNCHANGED <<i, decision, analysis, notional, row, file_exists>>
    /\ UNCHANGED <<config, status, file, broker, run_cash, loopv>>

\* trade_client.submit_order(order): by share quantity, outside any try block.
LoopOrder ==
    IF pc = "p_buy_submit"
    THEN Order(tickers[i], "BUY", qty * Den, 0, qty * price_map[tickers[i]])
    ELSE Order(tickers[i], "SELL", qty * Den, 0, qty * MarkPrice)

LoopSubmit ==
    /\ status = "running" /\ pc \in {"p_buy_submit", "p_sell_submit"}
    /\ \E accept \in BOOLEAN :
         IF accept /\ Acceptable(LoopOrder)
         THEN /\ Fill(LoopOrder)
              /\ h' = [h EXCEPT !.calls = @ + 1, !.submits = @ + 1,
                                !.accepted = @ + 1, !.from = h.st, !.st = "SUBMITTED"]
              /\ pc' = "p_report"
              /\ UNCHANGED <<status, i, locals>>
         ELSE /\ UNCHANGED broker
              /\ h' = [h EXCEPT !.calls = @ + 1, !.submits = @ + 1,
                                !.raised = "submit_order",
                                !.from = h.st, !.st = "FAILED"]
              /\ Uncaught
    /\ UNCHANGED <<config, file, run_cash, loopv>>

\* print(... cash_balance() ...) after the order, time.sleep(0.25).
LoopReport ==
    /\ status = "running" /\ pc = "p_report"
    /\ \E ok \in BOOLEAN :
         IF ~ok
         THEN /\ h' = [h EXCEPT !.calls = @ + 1, !.raised = "get_account"]
              /\ Uncaught
         ELSE /\ h' = [h EXCEPT !.calls = @ + 1]
              /\ Return("p_loop")
              /\ UNCHANGED status
    /\ UNCHANGED <<config, file, broker, run_cash, loopv>>

\* print(... Ending cash: cash_balance() ...) after the loop.
LoopFinish ==
    /\ status = "running" /\ pc = "p_loop" /\ i > Len(tickers)
    /\ \E ok \in BOOLEAN : status' = IF ok THEN "exit0" ELSE "exit1"
    /\ UNCHANGED <<config, pc, i, locals, file, broker, run_cash, loopv, h>>

(***************************************************************************)
(* generate_daily_reports.py: generate_reports                             *)
(***************************************************************************)
\* try: analysis, decision = ta.propagate(...); write the report
\* except Exception: print to stderr.  No audit row is written either way.
GenReport ==
    /\ status = "running" /\ pc = "g_loop" /\ i <= Len(tickers)
    /\ \E ok \in BOOLEAN :
         h' = IF ok
              THEN [FreshH EXCEPT !.ticker = tickers[i], !.st = "REPORTED"]
              ELSE [FreshH EXCEPT !.ticker = tickers[i], !.raised = "propagate",
                                  !.st = "SKIPPED"]
    /\ Return("g_loop")
    /\ UNCHANGED <<config, status, file, broker, run_cash, loopv>>

GenFinish ==
    /\ status = "running" /\ pc = "g_loop" /\ i > Len(tickers)
    /\ status' = "exit0"
    /\ UNCHANGED <<config, pc, i, locals, file, broker, run_cash, loopv, h>>

(***************************************************************************)
(* Process                                                                 *)
(***************************************************************************)
\* The process is killed from outside between two steps.
Kill ==
    /\ status = "running"
    /\ status' = "killed"
    /\ UNCHANGED <<config, pc, i, locals, file, broker, run_cash, loopv, h>>

\* The same command line is started again; the broker account and the log
\* file are what the earlier process left.
Restart ==
    /\ status \in Terminal
    /\ runs < MaxRuns
    /\ runs' = runs + 1
    /\ status' = "running"
    /\ pc' = "start"
    /\ i' = 1
    /\ NoLocals
    /\ run_cash' = cash
    /\ h' = FreshH
    /\ UNCHANGED <<script, tickers, buy_pct, sell_pct, file, broker, loopv>>

Scripts ==
    {"execute_trades", "execute_trades_vf", "investing_alpaca", "generate_daily_reports"}

EntryPoint(s) ==
    CASE s = "execute_trades" -> "start"
      [] s = "execute_trades_vf" -> "creds"
      [] s = "investing_alpaca" -> "collect"
      [] s = "generate_daily_reports" -> "g_loop"

InitCommon ==
    /\ status = "running"
    /\ pc = EntryPoint(script)
    /\ runs = 1
    /\ i = 1
    /\ decision = NoLabel
    /\ analysis = "plain"
    /\ notional = 0
    /\ qty = 0
    /\ row = NoRow
    /\ file_exists = FALSE
    /\ file = [exists |-> FALSE, rows |-> <<>>]
    /\ orders = <<>>
    /\ run_cash = cash
    /\ price_map = [t \in {} |-> 0]
    /\ h = FreshH

\* One process of one of the scripts.
Init ==
    /\ script \in Scripts
    /\ tickers \in CASE script = "execute_trades_vf" -> {<<"NVDA", "AAPL", "MSFT">>}
                     [] script = "investing_alpaca" -> {<<"NVDA", "AAPL">>}
                     [] OTHER -> Batches
    /\ buy_pct \in IF script = "execute_trades" THEN BuyPcts ELSE {0}
    /\ sell_pct \in IF script = "execute_trades" THEN SellPcts ELSE {0}
    /\ cash \in IF script = "generate_daily_reports" THEN {InitCash} ELSE {0, InitCash}
    /\ position = InitPosition
    /\ decisions = IF script = "execute_trades_vf" THEN FixedDecisions
                   ELSE [t \in {} |-> NoLabel]
    /\ InitCommon

\* execute_trades.py without ticker arguments; NU is held or not.
InitRuns ==
    /\ script = "execute_trades"
    /\ tickers = DefaultTickers
    /\ buy_pct \in BuyPcts
    /\ sell_pct \in SellPcts
    /\ cash \in {0, InitCash}
    /\ position \in {[InitPosition EXCEPT !["NU"] = q] : q \in {0, InitQty}}
    /\ decisions = [t \in {} |-> NoLabel]
    /\ InitCommon

Next ==
    \/ Start
    \/ Finish
    \/ Fetch
    \/ Exec
    \/ BuyCash
    \/ BuySubmit
    \/ SellPos
    \/ SellSubmit
    \/ LogOpen
    \/ LogWrite
    \/ Collect
    \/ Startup
    \/ Dispatch
    \/ LoopBuySize
    \/ LoopSellPos
    \/ LoopSubmit
    \/ LoopReport
    \/ LoopFinish
    \/ GenReport
    \/ GenFinish
    \/ Kill

NextRuns ==
    \/ Start
    \/ Finish
    \/ Fetch
    \/ Exec
    \/ BuyCash
    \/ BuySubmit
    \/ SellPos
    \/ SellSubmit
    \/ LogOpen
    \/ LogWrite
    \/ Kill
    \/ Restart

Spec == Init /\ [][Next]_vars

SpecRuns == InitRuns /\ [][NextRuns]_vars

(***************************************************************************)
(* Properties                                                              *)
(***************************************************************************)
Last(s) == s[Len(s)]

IsSuccess(r) == r.action \in {"BUY", "SELL"}

Count(rows, P(_)) == Cardinality({k \in 1..Len(rows) : P(rows[k])})

IsHeader(r) == r.action = "HEADER"

IsData(r) == r.action # "HEADER"

\* The handling of the current ticker is over: the loop is back at its head, or
\* the process ended by itself.
HandlingOver == pc \in {"loop", "p_loop", "g_loop"} \/ status \in {"exit0", "exit1"}

\* C1: batch isolation: a ticker whose handling raised (decision fetch,
\* serialisation, cash read, position lookup, order submission) never ends
\* the run with a failure status; the later tickers are still handled.
C1_BatchIsolation == h.raised # "none" => status # "exit1"

\* C2: a SELL for which the broker reports no open position submits no order
\* and appends no audit record of any kind.
C2_SellWithoutPositionIsSilent ==
    (h.decision = SELL /\ h.nopos) => (h.submits = 0 /\ h.appended = 0)

\* C3: in execute_decision, a submit_order that raised is followed by exactly
\* one audit record of that ticker, with action ERROR, qty 0 and notional 0,
\* and by no success record; the loop then goes on with the next ticker.
C3_RejectedOrderLogged ==
    (script = "execute_trades" /\ h.raised = "submit_order") =>
        /\ h.accepted = 0
        /\ status \notin {"exit1", "fatal"}
        /\ IF h.st = "LOGGED"
           THEN /\ h.appended = 1 /\ h.errors = 1
                /\ Len(file.rows) > 0
                /\ Last(file.rows).action = "ERROR"
                /\ Last(file.rows).ticker = h.ticker
                /\ Last(file.rows).qty = 0
                /\ Last(file.rows).notional = 0
                /\ pc = "loop"
           ELSE /\ h.appended = 0
                /\ pc \in {"log_open", "log_write"}
                /\ row.action = "ERROR" /\ row.qty = 0 /\ row.notional = 0

C3_Witness ==
    /\ script = "execute_trades" /\ status = "running" /\ pc = "loop"
    /\ h.raised = "submit_order" /\ h.st = "LOGGED"
    /\ i <= Len(tickers)

\* C4: in execute_decision, at the end of every handling the success records
\* of the log are as many as the orders the broker accepted, and an accepted
\* order of this handling has exactly one record, whose action is the order
\* side and whose qty or notional is not zero.
C4_AcceptedOrderLogged ==
    (script = "execute_trades" /\ pc = "loop") =>
        /\ Count(file.rows, IsSuccess) = Len(orders)
        /\ h.accepted = 1 =>
             /\ h.appended = 1
             /\ Last(file.rows).action = Last(orders).side
             /\ Last(file.rows).qty # 0 \/ Last(file.rows).notional # 0

\* C5: in execute_trades.py every ticker whose decision was fetched ends its
\* handling SKIPPED with no record or LOGGED with exactly one, LOGGED coming
\* from SUBMITTED or from FAILED by a gateway call.
C5_TickerStateMachine ==
    (script = "execute_trades" /\ HandlingOver /\ h.st # "PENDING") =>
        /\ h.st \in {"SKIPPED", "LOGGED"}
        /\ h.st = "SKIPPED" => h.appended = 0
        /\ h.st = "LOGGED" =>
             /\ h.appended = 1
             /\ h.from \in {"SUBMITTED", "FAILED"}
             /\ h.from = "FAILED" => h.raised \in {"get_open_position", "submit_order"}

\* C6: a raise of the Decision Source for one ticker is caught, one ERROR row
\* is appended for the ticker and the batch goes on.
C6_DecisionSourceErrorLogged ==
    h.raised = "propagate" => (status # "exit1" /\ h.errors = 1)

\* C7: the handling of a ticker whose normalised decision is neither BUY nor
\* SELL makes no broker call, appends no audit record and leaves the broker
\* account and the log as they were.
C7_HoldHasNoEffect ==
    [][h'.decision \notin {NoLabel, BUY, SELL} =>
          /\ h'.calls = 0 /\ h'.submits = 0 /\ h'.appended = 0
          /\ cash' = cash /\ position' = position /\ orders' = orders
          /\ file' = file]_vars

C7_Witness ==
    /\ script = "execute_trades" /\ pc = "loop" /\ i <= Len(tickers)
    /\ h.decision = <<"W", "A", "I", "T">> /\ h.st = "SKIPPED"
    /\ Len(orders) > 0

C9_NonPositiveSizeSkipped ==
    h.size <= 0 => (h.submits = 0 /\ h.appended = 0)

\* C10: under restarts against the same file the log never holds a second
\* header row, and once it holds a data row it holds the header exactly once.
C10_HeaderExactlyOnce ==
    /\ Count(file.rows, IsHeader) <= 1
    /\ Count(file.rows, IsData) > 0 => Count(file.rows, IsHeader) = 1


IsPrefix(a, b) == Len(a) <= Len(b) /\ SubSeq(b, 1, Len(a)) = a

\* C11: the audit log is append-only: every step of every run, error paths,
\* kills and restarts included, leaves the rows the file held as a prefix of
\* the rows it holds afterwards, and never removes the file.
C11_AppendOnly ==
    [][/\ IsPrefix(file.rows, file'.rows)
       /\ file.exists => file'.exists]_vars

\* A later run added the ERROR row of a refused success row to a log that
\* already held the rows of an earlier run.
C11_Witness ==
    /\ runs >= 2 /\ pc = "loop"
    /\ h.raised = "log_trade" /\ h.st = "LOGGED"
    /\ Len(file.rows) >= 3
    /\ Last(file.rows).action = "ERROR"

\* C12: a run that stopped on missing credentials has fetched no decision,
\* made no broker call and written nothing to the log.
C12_NoWorkBeforeCredentials ==
    status = "fatal" =>
        /\ DOMAIN decisions = {} \/ script = "execute_trades_vf"
        /\ h = FreshH
        /\ i = 1
        /\ orders = <<>>
        /\ ~file.exists

\* C13: submit_order is called at most once for a ticker occurrence, whether
\* it returns or raises: after a raise the handling goes on without sending
\* the order again, and an accepted order is never followed by a second call.
C13_NoRetry ==
    /\ h.submits <= 1
    /\ h.accepted <= h.submits
    /\ h.raised = "submit_order" => (h.submits = 1 /\ h.accepted = 0)
    /\ Len(orders) <= i

C13_Witness ==
    /\ script = "execute_trades" /\ status = "exit0"
    /\ h.raised = "submit_order" /\ h.submits = 1 /\ h.errors = 1
    /\ Len(orders) = Len(tickers) - 1
    /\ Len(tickers) = MaxBatch

\* The position lookup of a SELL in execute_decision returned a position.
SellLookupReturned ==
    /\ script = "execute_trades" /\ h.decision = SELL
    /\ h.calls >= 1 /\ h.raised # "get_open_position"

\* C14 as claimed: for every open position and every sell_fraction a SELL
\* order is submitted, for quantity * sell_fraction exactly (the whole
\* holding in the price-based loop); an order for more than is held is
\* refused and recorded as ERROR.
C14_SellOrderForEveryFraction ==
    /\ pc = "sell_submit" => qty = position[tickers[i]] * sell_pct
    /\ pc = "p_sell_submit" => qty = position[tickers[i]]
    /\ SellLookupReturned => (pc = "sell_submit" \/ h.submits = 1)
    /\ (SellLookupReturned /\ sell_pct > Den /\ h.st = "LOGGED") =>
           (h.accepted = 0 /\ h.errors = 1)

\* C14 as amended: in execute_decision, once the lookup returned a position,
\* a sell_fraction above 0 submits one SELL order for quantity * sell_fraction
\* exactly, never clamped, and a sell_fraction of 0 or less submits none;
\* sell_fraction 1 sells the whole holding; an order for more than is held
\* is refused and recorded as ERROR.  The price-based loop has no
\* sell_fraction and orders the whole holding.
C14_SellQuantityExact ==
    /\ pc = "sell_submit" =>
           (qty = position[tickers[i]] * sell_pct /\ sell_pct > 0 /\ h.size = qty)
    /\ pc = "p_sell_submit" => qty = position[tickers[i]]
    /\ (SellLookupReturned /\ pc # "sell_submit") =>
           h.submits = (IF sell_pct > 0 THEN 1 ELSE 0)
    /\ (SellLookupReturned /\ h.accepted = 1) =>
           /\ Last(orders).qty = h.size
           /\ sell_pct <= Den
           /\ sell_pct = Den => position[h.ticker] = 0
    /\ (SellLookupReturned /\ sell_pct > Den /\ h.submits = 1) =>
           /\ h.accepted = 0 /\ h.raised = "submit_order"
           /\ h.st = "LOGGED" =>
                (h.errors = 1 /\ Last(file.rows).action = "ERROR")

\* An order for more than the holding was refused and its ERROR row written.
C14_Witness ==
    /\ SellLookupReturned /\ pc = "loop" /\ status = "running"
    /\ sell_pct > Den /\ h.size > position[h.ticker] * Den
    /\ h.submits = 1 /\ h.st = "LOGGED" /\ h.errors = 1

\* C15: whatever the path held before the first write (nothing, or an empty
\* file left by a killed run), a log that holds a data row has the header as
\* its first row.
C15_HeaderBeforeData ==
    \A k \in 1..Len(file.rows) :
        IsData(file.rows[k]) => (k > 1 /\ IsHeader(file.rows[1]))

\* C16: in every trade loop a label that differs from BUY, SELL or HOLD only
\* by case and by leading or trailing whitespace is handled as that label:
\* the label acted on is the trimmed upper-case one, and a BUY or SELL so
\* spelled is not passed over without a broker call.
C16_LabelsTrimmedAndUpperCased ==
    h.raw # NoLabel =>
        /\ h.decision = Upper(Strip(h.raw))
        /\ Upper(Strip(h.raw)) \in {BUY, SELL} => (h.st # "SKIPPED" \/ h.calls >= 1)

\* C17: in execute_decision a handling that appended an ERROR record had no
\* order accepted by the broker, also when the failure came after
\* submit_order returned.
C17_ErrorMeansNoOrder ==
    (script = "execute_trades" /\ h.errors >= 1) => h.accepted = 0

\* C18: a process of execute_trades.py killed at any point leaves a log that
\* holds a data row for every order the broker accepted.
C18_KilledRunLeavesRecord ==
    (script = "execute_trades" /\ status = "killed") =>
        Len(orders) <= Count(file.rows, IsData)

\* C19: in the price-based loops the shares of a BUY order times the latest
\* price never exceed cash_balance() * FRACTION, for the order about to be
\* submitted and for the order the broker accepted.
C19_BuyWithinAllocation ==
    /\ pc = "p_buy_submit" => qty * price_map[tickers[i]] * Den <= cash * Fraction
    /\ (script # "execute_trades" /\ h.decision = BUY /\ h.accepted = 1) =>
           Last(orders).cost * Den <= h.size

====
